---------------------------- MODULE Spec2Model ----------------------------
(***************************************************************************)
(* Model of the type algebra and the annotation translator of              *)
(* eslint-plugin-typelint (src/unnamed/part_000).                          *)
(*                                                                         *)
(* A type is a record whose "kind" field is the name of its class:         *)
(*   Type (the invalid/bottom type), AnyType, PrimitiveType, AliasType,    *)
(*   UnionType, RecordType, FunctionType.                                  *)
(* A JavaScript object used as a map (RecordType.record,                   *)
(* FunctionType.parameterTypes, the typedef registry) is a sequence of     *)
(* [name, type] entries in insertion order, without repeated names.        *)
(* A comparison returns one of "true", "false", or the name of the error   *)
(* it throws: "TypeError", or "RangeError" when the recursion never        *)
(* returns and the engine runs out of stack.                               *)
(***************************************************************************)
EXTENDS Integers, Sequences, FiniteSets, TLC

VARIABLES
    typedefs,      \* the typedef registry threaded through the translations
    pc,            \* "idle" | "translated" | "compared"
    rec,           \* the tag list of the last Type.fromDoctrine call
    type,          \* what that call returned (or the error it threw)
    before,        \* the registry as it was when that call started
    thisType,      \* receiver of the last comparison
    otherType,     \* argument of the last comparison
    ofType,        \* outcome of thisType.isOfType(otherType)
    supertypeOf,   \* outcome of thisType.isSupertypeOf(otherType)
    heap,          \* the objects the translator has made, by address
    created        \* the heap as it was when the last call started

vars == <<typedefs, pc, rec, type, before, thisType, otherType, ofType, supertypeOf,
          heap, created>>

----------------------------------------------------------------------------
(* Objects used as maps *)

\* Object.keys(obj)
Keys(obj) == [i \in 1..Len(obj) |-> obj[i].name]

\* obj.hasOwnProperty(name)
hasOwnProperty(obj, name) == \E i \in 1..Len(obj) : obj[i].name = name

\* obj[name] for an own property
Own(obj, name) == obj[CHOOSE i \in 1..Len(obj) : obj[i].name = name].type

\* obj[name] = value: an existing key keeps its position
Put(obj, name, value) ==
    IF hasOwnProperty(obj, name)
    THEN [i \in 1..Len(obj) |->
             IF obj[i].name = name THEN [name |-> name, type |-> value] ELSE obj[i]]
    ELSE Append(obj, [name |-> name, type |-> value])

\* Names every object literal {} inherits from Object.prototype (a sample).
ObjectPrototypeNames == {"constructor", "toString"}

\* What obj[name] gives for an inherited name: a native function, not a Type.
Inherited(name) == [kind |-> "native", name |-> name]

----------------------------------------------------------------------------
(* strip: string.replace(/\s/g, '') *)

RECURSIVE strip(_)
strip(string) ==
    IF Len(string) = 0 THEN ""
    ELSE IF SubSeq(string, 1, 1) = " "
         THEN strip(Tail(string))
         ELSE SubSeq(string, 1, 1) \o strip(Tail(string))

----------------------------------------------------------------------------
(* Constructors and singletons *)

NewType == [kind |-> "Type"]
NewAnyType == [kind |-> "AnyType"]
PrimitiveType(primitive) == [kind |-> "PrimitiveType", primitive |-> strip(primitive)]
AliasType(name, target) == [kind |-> "AliasType", name |-> name, type |-> target]
UnionType(union) == [kind |-> "UnionType", union |-> union]
RecordType(record) == [kind |-> "RecordType", record |-> record]
FunctionType(returnType, argumentTypes, parameterTypes) ==
    [kind |-> "FunctionType", returnType |-> returnType,
     argumentTypes |-> argumentTypes, parameterTypes |-> parameterTypes]

Type_any == NewAnyType
Type_undefined == PrimitiveType("undefined")
Type_invalid == NewType
Type_string == PrimitiveType("string")
Type_number == PrimitiveType("number")
Type_boolean == PrimitiveType("boolean")
Type_object == RecordType(<<>>)

\* otherType === Type.any : AnyType is instantiated once, so identity is the kind
IsTypeAny(t) == t.kind = "AnyType"

----------------------------------------------------------------------------
(* Accessors *)

\* instanceOf(kind): an alias looks at the class of its target object
instanceOf(t, kind) ==
    IF t.kind = "AliasType" THEN t.type.kind = kind ELSE t.kind = kind

\* getPrimitive(): <<name>>, or <<>> for undefined; AliasType does not override it
getPrimitive(t) ==
    IF t.kind = "PrimitiveType" THEN <<t.primitive>> ELSE <<>>

RECURSIVE getPropertyNames(_)
getPropertyNames(t) ==
    CASE t.kind = "RecordType" -> Keys(t.record)
      [] t.kind = "AliasType" -> getPropertyNames(t.type)
      [] OTHER -> <<>>

RECURSIVE getProperty(_, _)

\* variant: RecordType.getProperty falls back to Type.getProperty for a name
\* the record does not declare
getProperty_closed(t, name) ==
    CASE t.kind = "RecordType" ->
             IF hasOwnProperty(t.record, name) THEN Own(t.record, name) ELSE Type_invalid
      [] t.kind = "AliasType" -> getProperty(t.type, name)
      [] t.kind = "AnyType" -> Type_any
      [] OTHER -> Type_invalid

getProperty(t, name) ==
    CASE t.kind = "RecordType" ->
             IF hasOwnProperty(t.record, name) THEN Own(t.record, name) ELSE Type_any
      [] t.kind = "AliasType" -> getProperty(t.type, name)
      [] t.kind = "AnyType" -> Type_any
      [] OTHER -> Type_invalid

RECURSIVE getReturn(_)
getReturn(t) ==
    CASE t.kind = "FunctionType" -> t.returnType
      [] t.kind = "AliasType" -> getReturn(t.type)
      [] t.kind = "AnyType" -> Type_any
      [] OTHER -> Type_invalid

\* getArgumentCount(): <<n>>, or <<>> for undefined
RECURSIVE getArgumentCount(_)
getArgumentCount(t) ==
    CASE t.kind = "FunctionType" -> <<Len(t.argumentTypes)>>
      [] t.kind = "AliasType" -> getArgumentCount(t.type)
      [] OTHER -> <<>>

\* getArgument(index), index counted from 0 as in the source
RECURSIVE getArgument(_, _)
getArgument(t, index) ==
    CASE t.kind = "FunctionType" ->
             IF index >= 0 /\ index < Len(t.argumentTypes)
             THEN t.argumentTypes[index + 1]
             ELSE Type_invalid
      [] t.kind = "AliasType" -> getArgument(t.type, index)
      [] t.kind = "AnyType" -> Type_any
      [] OTHER -> Type_invalid

\* getParameter(name): this.parameterTypes[name] || Type.any, where the lookup
\* also finds what the object literal inherits
RECURSIVE getParameter(_, _)
getParameter(t, name) ==
    CASE t.kind = "FunctionType" ->
             IF hasOwnProperty(t.parameterTypes, name) THEN Own(t.parameterTypes, name)
             ELSE IF name \in ObjectPrototypeNames THEN Inherited(name)
             ELSE Type_any
      [] t.kind = "AliasType" -> getParameter(t.type, name)
      [] OTHER -> Type_invalid

RECURSIVE hasParameter(_, _)
hasParameter(t, name) ==
    CASE t.kind = "FunctionType" -> hasOwnProperty(t.parameterTypes, name)
      [] t.kind = "AliasType" -> hasParameter(t.type, name)
      [] OTHER -> FALSE

----------------------------------------------------------------------------
(* toString *)

RECURSIVE join(_, _)
join(strings, separator) ==
    IF Len(strings) = 0 THEN ""
    ELSE IF Len(strings) = 1 THEN strings[1]
    ELSE strings[1] \o separator \o join(Tail(strings), separator)

RECURSIVE toString(_)
toString(t) ==
    CASE t.kind = "Type" -> "<invalid>"
      [] t.kind = "AnyType" -> "*"
      [] t.kind = "PrimitiveType" -> t.primitive
      [] t.kind = "AliasType" -> t.name
      [] t.kind = "UnionType" ->
             join([i \in 1..Len(t.union) |-> toString(t.union[i])], "|")
      [] t.kind = "RecordType" ->
             "{" \o join([i \in 1..Len(t.record) |->
                            t.record[i].name \o ":" \o toString(t.record[i].type)], ", ")
                 \o "}"
      [] t.kind = "FunctionType" ->
             "function(" \o join([i \in 1..Len(t.argumentTypes) |->
                                     toString(t.argumentTypes[i])], ",")
                         \o "):" \o toString(getReturn(t))


----------------------------------------------------------------------------
(* isOfType / isSupertypeOf                                                *)
(*                                                                         *)
(* stack is the set of calls <<method, this, otherType>> that have not     *)
(* returned.  The methods are pure, so a call that is already on the stack *)
(* repeats itself without end: the engine throws RangeError (Maximum call  *)
(* stack size exceeded), which no method catches.                          *)

Bool(b) == IF b THEN "true" ELSE "false"

RECURSIVE isOfType(_, _, _)
RECURSIVE isSupertypeOf(_, _, _)
RECURSIVE UnionType_isOfType_from(_, _, _, _)
RECURSIVE UnionType_isSupertypeOf_from(_, _, _, _)
RECURSIVE RecordType_isOfType_from(_, _, _, _, _)
RECURSIVE RecordType_isSupertypeOf_from(_, _, _, _, _)

\* Type.isOfType, also what FunctionType inherits
Type_isOfType(this, other, stack) == isSupertypeOf(other, this, stack)

Type_isSupertypeOf(this, other, stack) == "false"

\* variant: AnyType without its own isOfType, inheriting Type.isOfType
AnyType_isOfType_inherited(this, other, stack) == isSupertypeOf(other, this, stack)

AnyType_isOfType(this, other, stack) == Bool(IsTypeAny(other))

AnyType_isSupertypeOf(this, other, stack) == "true"

PrimitiveType_isOfType(this, other, stack) ==
    IF instanceOf(other, "PrimitiveType")
    THEN Bool(getPrimitive(this) = getPrimitive(other))
    ELSE isSupertypeOf(other, this, stack)

PrimitiveType_isSupertypeOf(this, other, stack) ==
    IF instanceOf(other, "PrimitiveType")
    THEN Bool(getPrimitive(this) = getPrimitive(other))
    ELSE isOfType(other, this, stack)

AliasType_isOfType(this, other, stack) == isOfType(this.type, other, stack)

\* variant: AliasType without its own isSupertypeOf, inheriting Type.isSupertypeOf
AliasType_isSupertypeOf_inherited(this, other, stack) == "false"

AliasType_isSupertypeOf(this, other, stack) == isSupertypeOf(this.type, other, stack)

\* for (const type of this.union) from the i-th member on
UnionType_isOfType_from(this, i, other, stack) ==
    IF i > Len(this.union) THEN "true"
    ELSE LET r == isOfType(this.union[i], other, stack) IN
         IF r = "true" THEN UnionType_isOfType_from(this, i + 1, other, stack)
         ELSE r

\* variant: the loop returns what the first member answers
UnionType_isOfType_firstOnly(this, other, stack) ==
    IF Len(this.union) = 0 THEN "true" ELSE isOfType(this.union[1], other, stack)

UnionType_isOfType(this, other, stack) == UnionType_isOfType_from(this, 1, other, stack)

UnionType_isSupertypeOf_from(this, i, other, stack) ==
    IF i > Len(this.union) THEN "false"
    ELSE LET r == isSupertypeOf(this.union[i], other, stack) IN
         IF r = "false" THEN UnionType_isSupertypeOf_from(this, i + 1, other, stack)
         ELSE r

UnionType_isSupertypeOf(this, other, stack) ==
    UnionType_isSupertypeOf_from(this, 1, other, stack)

\* for (const name of names) from the i-th name on
RecordType_isOfType_from(this, names, i, other, stack) ==
    IF i > Len(names) THEN "true"
    ELSE LET r == isOfType(getProperty(this, names[i]), getProperty(other, names[i]), stack)
         IN  IF r = "true" THEN RecordType_isOfType_from(this, names, i + 1, other, stack)
             ELSE r

RecordType_isOfType(this, other, stack) ==
    IF instanceOf(other, "PrimitiveType") THEN "false"
    ELSE IF ~instanceOf(other, "RecordType") THEN isSupertypeOf(other, this, stack)
    ELSE RecordType_isOfType_from(this, getPropertyNames(other), 1, other, stack)

RecordType_isSupertypeOf_from(this, names, i, other, stack) ==
    IF i > Len(names) THEN "true"
    ELSE LET r == isSupertypeOf(getProperty(this, names[i]),
                                getProperty(other, names[i]), stack)
         IN  IF r = "true"
             THEN RecordType_isSupertypeOf_from(this, names, i + 1, other, stack)
             ELSE r

RecordType_isSupertypeOf(this, other, stack) ==
    IF instanceOf(other, "PrimitiveType") THEN "false"
    ELSE IF ~instanceOf(other, "RecordType") THEN isOfType(other, this, stack)
    ELSE RecordType_isSupertypeOf_from(this, getPropertyNames(this), 1, other, stack)

\* this.getReturnType is not a method of any class: the first expression of
\* the body throws TypeError before anything else is evaluated
FunctionType_isSupertypeOf(this, other, stack) == "TypeError"

\* method dispatch on the class of the receiver
isOfType(this, other, stack) ==
    LET frame == <<"isOfType", this, other>>
        inner == stack \cup {frame}
    IN  IF frame \in stack THEN "RangeError"
        ELSE CASE this.kind = "AnyType" -> AnyType_isOfType(this, other, inner)
               [] this.kind = "PrimitiveType" -> PrimitiveType_isOfType(this, other, inner)
               [] this.kind = "AliasType" -> AliasType_isOfType(this, other, inner)
               [] this.kind = "UnionType" -> UnionType_isOfType(this, other, inner)
               [] this.kind = "RecordType" -> RecordType_isOfType(this, other, inner)
               [] OTHER -> Type_isOfType(this, other, inner)

isSupertypeOf(this, other, stack) ==
    LET frame == <<"isSupertypeOf", this, other>>
        inner == stack \cup {frame}
    IN  IF frame \in stack THEN "RangeError"
        ELSE CASE this.kind = "AnyType" -> AnyType_isSupertypeOf(this, other, inner)
               [] this.kind = "PrimitiveType" ->
                      PrimitiveType_isSupertypeOf(this, other, inner)
               [] this.kind = "AliasType" -> AliasType_isSupertypeOf(this, other, inner)
               [] this.kind = "UnionType" -> UnionType_isSupertypeOf(this, other, inner)
               [] this.kind = "RecordType" -> RecordType_isSupertypeOf(this, other, inner)
               [] this.kind = "FunctionType" ->
                      FunctionType_isSupertypeOf(this, other, inner)
               [] OTHER -> Type_isSupertypeOf(this, other, inner)

\* a call made by a rule: nothing of the algebra is on the stack
CallIsOfType(this, other) == isOfType(this, other, {})
CallIsSupertypeOf(this, other) == isSupertypeOf(this, other, {})

----------------------------------------------------------------------------
(* The annotation translator                                               *)
(*                                                                         *)
(* A declared-type expression is a record with the parser's discriminator  *)
(* "type"; an optional sub-expression is <<e>> or <<>>.  A tag is          *)
(* [title, name, type].  rec is [hasTags, tags]: the parsed comment has a  *)
(* tags list, the {} handed to union members has none.  A translation      *)
(* returns a type, or Thrown(e) when it ends with an exception.            *)

NameExpression(name) == [type |-> "NameExpression", name |-> name]
UndefinedLiteral == [type |-> "UndefinedLiteral"]
RecordExpression == [type |-> "RecordType"]
UnionExpression(elements) == [type |-> "UnionType", elements |-> elements]
FunctionExpression(params, result) ==
    [type |-> "FunctionType", params |-> params, result |-> result]
AllLiteral == [type |-> "AllLiteral"]

Comment(tags) == [hasTags |-> TRUE, tags |-> tags]
EmptyRec == [hasTags |-> FALSE, tags |-> <<>>]

Thrown(error) == [kind |-> "thrown", error |-> error]
IsThrown(t) == t.kind = "thrown"

\* the exception that ends the evaluation of a list of translations made in
\* order: the first one thrown
RECURSIVE FirstThrown(_)
FirstThrown(types) ==
    IF Len(types) = 0 THEN <<>>
    ELSE IF IsThrown(types[1]) THEN <<types[1]>>
    ELSE FirstThrown(Tail(types))

RECURSIVE Type_fromDoctrineType(_, _, _, _)
RECURSIVE RecordType_record(_, _, _, _, _)
RECURSIVE FunctionType_fromDoctrine_from(_, _, _, _, _, _)
RECURSIVE Type_fromDoctrine_from(_, _, _)

PrimitiveType_fromDoctrineType(expr, r, registry, stack) ==
    CASE expr.type = "NameExpression" ->
             IF hasOwnProperty(registry, expr.name)
             THEN AliasType(expr.name, Own(registry, expr.name))
             ELSE PrimitiveType(expr.name)
      [] expr.type = "UndefinedLiteral" -> Type_undefined
      [] OTHER -> NewType

UnionType_fromDoctrineType(expr, r, registry, stack) ==
    LET union == [i \in 1..Len(expr.elements) |->
                     Type_fromDoctrineType(expr.elements[i], EmptyRec, registry, stack)]
    IN  IF FirstThrown(union) # <<>> THEN FirstThrown(union)[1] ELSE UnionType(union)

\* the loop of RecordType.fromDoctrineType from tag i on, record built so far
RecordType_record(r, i, record, registry, stack) ==
    IF i > Len(r.tags) THEN RecordType(record)
    ELSE IF r.tags[i].title = "property"
         THEN LET t == Type_fromDoctrineType(r.tags[i].type, r, registry, stack) IN
              IF IsThrown(t) THEN t
              ELSE RecordType_record(r, i + 1, Put(record, r.tags[i].name, t),
                                     registry, stack)
         ELSE RecordType_record(r, i + 1, record, registry, stack)

\* variant: the declared shape is not looked at
RecordType_fromDoctrineType_anyShape(expr, r, registry, stack) ==
    IF ~r.hasTags THEN Thrown("TypeError") ELSE RecordType_record(r, 1, <<>>, registry, stack)

RecordType_fromDoctrineType(expr, r, registry, stack) ==
    IF expr.type = "NameExpression" /\ expr.name = "object"
    THEN IF ~r.hasTags
         THEN Thrown("TypeError")     \* rec.tags is undefined: rec.tags.length throws
         ELSE RecordType_record(r, 1, <<>>, registry, stack)
    ELSE Type_invalid

FunctionType_fromDoctrineType(expr, r, registry, stack) ==
    LET returnType == IF expr.result # <<>>
                      THEN Type_fromDoctrineType(expr.result[1], r, registry, stack)
                      ELSE Type_any
        paramTypes == [i \in 1..Len(expr.params) |->
                          Type_fromDoctrineType(expr.params[i], r, registry, stack)]
    IN  IF IsThrown(returnType) THEN returnType
        ELSE IF FirstThrown(paramTypes) # <<>> THEN FirstThrown(paramTypes)[1]
        ELSE FunctionType(returnType, paramTypes, <<>>)

\* stack is the set of calls <<expr, rec>> that have not returned; the
\* registry does not change while a declared type is translated, so a call
\* already on the stack never returns: RangeError
Type_fromDoctrineType(expr, r, registry, stack) ==
    LET frame == <<expr, r>>
        inner == stack \cup {frame}
    IN  IF frame \in stack THEN Thrown("RangeError")
        ELSE CASE expr.type = "FunctionType" ->
                      FunctionType_fromDoctrineType(expr, r, registry, inner)
               [] expr.type = "RecordType" ->
                      RecordType_fromDoctrineType(expr, r, registry, inner)
               [] expr.type = "UnionType" ->
                      UnionType_fromDoctrineType(expr, r, registry, inner)
               [] expr.type = "NameExpression" ->
                      IF expr.name = "object"
                      THEN RecordType_fromDoctrineType(expr, r, registry, inner)
                      ELSE PrimitiveType_fromDoctrineType(expr, r, registry, inner)
               [] expr.type = "UndefinedLiteral" ->
                      PrimitiveType_fromDoctrineType(expr, r, registry, inner)
               [] OTHER -> Thrown("Error")      \* Die: Unknown type

\* the loop of FunctionType.fromDoctrine from tag i on
FunctionType_fromDoctrine_from(r, i, returnType, argumentTypes, parameterTypes, registry) ==
    IF i > Len(r.tags) THEN FunctionType(returnType, argumentTypes, parameterTypes)
    ELSE LET tag == r.tags[i] IN
         IF tag.title = "return" \/ tag.title = "returns"
         THEN LET t == Type_fromDoctrineType(tag.type, r, registry, {}) IN
              IF IsThrown(t) THEN t
              ELSE FunctionType_fromDoctrine_from(r, i + 1, t, argumentTypes,
                                                  parameterTypes, registry)
         ELSE IF tag.title = "param"
         THEN LET argumentType == Type_fromDoctrineType(tag.type, r, registry, {}) IN
              IF IsThrown(argumentType) THEN argumentType
              ELSE FunctionType_fromDoctrine_from(r, i + 1, returnType,
                       Append(argumentTypes, argumentType),
                       Put(parameterTypes, tag.name, argumentType), registry)
         ELSE FunctionType_fromDoctrine_from(r, i + 1, returnType, argumentTypes,
                                             parameterTypes, registry)

FunctionType_fromDoctrine(r, registry) ==
    FunctionType_fromDoctrine_from(r, 1, Type_any, <<>>, <<>>, registry)

\* Type.fromDoctrine from tag i on: [type, typedefs], the value returned (or
\* the exception thrown) and the registry the call leaves behind
Type_fromDoctrine_from(r, i, registry) ==
    IF i > Len(r.tags) THEN [type |-> Type_any, typedefs |-> registry]
    ELSE LET tag == r.tags[i] IN
         CASE tag.title = "typedef" ->
                  LET t == RecordType_fromDoctrineType(tag.type, r, registry, {}) IN
                  IF IsThrown(t) THEN [type |-> t, typedefs |-> registry]
                  ELSE [type |-> Type_any, typedefs |-> Put(registry, tag.name, t)]
           [] tag.title = "type" ->
                  [type |-> Type_fromDoctrineType(tag.type, r, registry, {}),
                   typedefs |-> registry]
           [] tag.title \in {"return", "returns", "param"} ->
                  [type |-> FunctionType_fromDoctrine(r, registry), typedefs |-> registry]
           [] OTHER -> Type_fromDoctrine_from(r, i + 1, registry)

Type_fromDoctrine(r, registry) == Type_fromDoctrine_from(r, 1, registry)

----------------------------------------------------------------------------
(* The translator on a heap of objects                                     *)
(*                                                                         *)
(* A JavaScript value of a Type class is a reference.  Here heap is the    *)
(* sequence of the objects made so far, an address is an index into it,    *)
(* and an object holds the addresses of the types it was constructed       *)
(* with: AliasType.type, the members of UnionType.union, the values of     *)
(* RecordType.record and of FunctionType.parameterTypes, and               *)
(* FunctionType.returnType and .argumentTypes.  The registry maps a name   *)
(* to an address.  A translation returns [heap, at, thrown]: the heap it   *)
(* leaves, the address of the type it returns, and the name of the         *)
(* exception it ends with ("" when it returns).  What a translation that   *)
(* throws has allocated is unreachable and is left out of the heap.        *)

\* the singletons the translator hands out, made when the module is loaded
AnyAt == 1
UndefinedAt == 2
InvalidAt == 3
LoadedHeap == <<Type_any, Type_undefined, Type_invalid>>

Returns(h, a) == [heap |-> h, at |-> a, thrown |-> ""]
Throws(h, error) == [heap |-> h, at |-> 0, thrown |-> error]

\* new C(...): the object gets the next address
New(h, obj) == Returns(Append(h, obj), Len(h) + 1)

RECURSIVE Type_fromDoctrineType_heap(_, _, _, _, _)
RECURSIVE UnionType_union_heap(_, _, _, _, _, _)
RECURSIVE RecordType_record_heap(_, _, _, _, _, _)
RECURSIVE FunctionType_params_heap(_, _, _, _, _, _, _, _)
RECURSIVE FunctionType_fromDoctrine_from_heap(_, _, _, _, _, _, _)
RECURSIVE Type_fromDoctrine_from_heap(_, _, _, _)
RECURSIVE Type_fromDoctrine_from_heap_nameFirst(_, _, _, _)

PrimitiveType_fromDoctrineType_heap(expr, r, registry, h, stack) ==
    CASE expr.type = "NameExpression" ->
             IF hasOwnProperty(registry, expr.name)
             THEN New(h, AliasType(expr.name, Own(registry, expr.name)))
             ELSE New(h, PrimitiveType(expr.name))
      [] expr.type = "UndefinedLiteral" -> Returns(h, UndefinedAt)
      [] OTHER -> New(h, NewType)

\* type.elements.map(...) from element i on, then new UnionType(...union)
UnionType_union_heap(elements, i, union, registry, h, stack) ==
    IF i > Len(elements) THEN New(h, UnionType(union))
    ELSE LET out == Type_fromDoctrineType_heap(elements[i], EmptyRec, registry, h, stack) IN
         IF out.thrown # "" THEN out
         ELSE UnionType_union_heap(elements, i + 1, Append(union, out.at),
                                   registry, out.heap, stack)

UnionType_fromDoctrineType_heap(expr, r, registry, h, stack) ==
    UnionType_union_heap(expr.elements, 1, <<>>, registry, h, stack)

\* the loop of RecordType.fromDoctrineType from tag i on: [heap, record, thrown]
RecordType_record_heap(r, i, record, registry, h, stack) ==
    IF i > Len(r.tags) THEN [heap |-> h, record |-> record, thrown |-> ""]
    ELSE IF r.tags[i].title = "property"
         THEN LET out == Type_fromDoctrineType_heap(r.tags[i].type, r, registry, h, stack) IN
              IF out.thrown # ""
              THEN [heap |-> h, record |-> <<>>, thrown |-> out.thrown]
              ELSE RecordType_record_heap(r, i + 1, Put(record, r.tags[i].name, out.at),
                                          registry, out.heap, stack)
         ELSE RecordType_record_heap(r, i + 1, record, registry, h, stack)

RecordType_fromDoctrineType_heap(expr, r, registry, h, stack) ==
    IF expr.type = "NameExpression" /\ expr.name = "object"
    THEN IF ~r.hasTags
         THEN Throws(h, "TypeError")
         ELSE LET out == RecordType_record_heap(r, 1, <<>>, registry, h, stack) IN
              IF out.thrown # "" THEN Throws(h, out.thrown)
              ELSE New(out.heap, RecordType(out.record))
    ELSE Returns(h, InvalidAt)

\* type.params.map(...) from parameter i on, then new FunctionType(...)
FunctionType_params_heap(expr, i, returnType, paramTypes, r, registry, h, stack) ==
    IF i > Len(expr.params) THEN New(h, FunctionType(returnType, paramTypes, <<>>))
    ELSE LET out == Type_fromDoctrineType_heap(expr.params[i], r, registry, h, stack) IN
         IF out.thrown # "" THEN out
         ELSE FunctionType_params_heap(expr, i + 1, returnType, Append(paramTypes, out.at),
                                       r, registry, out.heap, stack)

FunctionType_fromDoctrineType_heap(expr, r, registry, h, stack) ==
    LET returnType == IF expr.result # <<>>
                      THEN Type_fromDoctrineType_heap(expr.result[1], r, registry, h, stack)
                      ELSE Returns(h, AnyAt)
    IN  IF returnType.thrown # "" THEN returnType
        ELSE FunctionType_params_heap(expr, 1, returnType.at, <<>>, r, registry,
                                      returnType.heap, stack)

Type_fromDoctrineType_heap(expr, r, registry, h, stack) ==
    LET frame == <<expr, r>>
        inner == stack \cup {frame}
    IN  IF frame \in stack THEN Throws(h, "RangeError")
        ELSE LET out ==
                 CASE expr.type = "FunctionType" ->
                          FunctionType_fromDoctrineType_heap(expr, r, registry, h, inner)
                   [] expr.type = "RecordType" ->
                          RecordType_fromDoctrineType_heap(expr, r, registry, h, inner)
                   [] expr.type = "UnionType" ->
                          UnionType_fromDoctrineType_heap(expr, r, registry, h, inner)
                   [] expr.type = "NameExpression" ->
                          IF expr.name = "object"
                          THEN RecordType_fromDoctrineType_heap(expr, r, registry, h, inner)
                          ELSE PrimitiveType_fromDoctrineType_heap(expr, r, registry, h, inner)
                   [] expr.type = "UndefinedLiteral" ->
                          PrimitiveType_fromDoctrineType_heap(expr, r, registry, h, inner)
                   [] OTHER -> Throws(h, "Error")
             IN  IF out.thrown # "" THEN Throws(h, out.thrown) ELSE out

\* the loop of FunctionType.fromDoctrine from tag i on
FunctionType_fromDoctrine_from_heap(r, i, returnType, argumentTypes, parameterTypes, registry, h) ==
    IF i > Len(r.tags)
    THEN New(h, FunctionType(returnType, argumentTypes, parameterTypes))
    ELSE LET tag == r.tags[i] IN
         IF tag.title \in {"return", "returns", "param"}
         THEN LET out == Type_fromDoctrineType_heap(tag.type, r, registry, h, {}) IN
              IF out.thrown # "" THEN out
              ELSE IF tag.title = "param"
              THEN FunctionType_fromDoctrine_from_heap(r, i + 1, returnType,
                       Append(argumentTypes, out.at),
                       Put(parameterTypes, tag.name, out.at), registry, out.heap)
              ELSE FunctionType_fromDoctrine_from_heap(r, i + 1, out.at, argumentTypes,
                       parameterTypes, registry, out.heap)
         ELSE FunctionType_fromDoctrine_from_heap(r, i + 1, returnType, argumentTypes,
                                                  parameterTypes, registry, h)

FunctionType_fromDoctrine_heap(r, registry, h) ==
    LET out == FunctionType_fromDoctrine_from_heap(r, 1, AnyAt, <<>>, <<>>, registry, h)
    IN  IF out.thrown # "" THEN Throws(h, out.thrown) ELSE out

\* what Type.fromDoctrine leaves: the outcome of a translation and the registry
Registers(out, registry) ==
    [heap |-> out.heap, at |-> out.at, thrown |-> out.thrown, typedefs |-> registry]

\* variant: the typedef's name is written to the registry before its
\* properties are translated
Type_fromDoctrine_from_heap_nameFirst(r, i, registry, h) ==
    IF i > Len(r.tags) THEN Registers(Returns(h, AnyAt), registry)
    ELSE LET tag == r.tags[i] IN
         CASE tag.title = "typedef" ->
                  IF tag.type # NameExpression("object")
                  THEN Registers(Returns(h, AnyAt), Put(registry, tag.name, InvalidAt))
                  ELSE LET made == New(h, RecordType(<<>>))
                           named == Put(registry, tag.name, made.at)
                           out == RecordType_record_heap(r, 1, <<>>, named, made.heap, {})
                       IN  IF out.thrown # ""
                           THEN Registers(Throws(h, out.thrown), registry)
                           ELSE Registers(
                                    Returns([out.heap EXCEPT ![made.at] =
                                                 RecordType(out.record)], AnyAt),
                                    named)
           [] tag.title = "type" ->
                  Registers(Type_fromDoctrineType_heap(tag.type, r, registry, h, {}),
                            registry)
           [] tag.title \in {"return", "returns", "param"} ->
                  Registers(FunctionType_fromDoctrine_heap(r, registry, h), registry)
           [] OTHER -> Type_fromDoctrine_from_heap_nameFirst(r, i + 1, registry, h)

\* Type.fromDoctrine from tag i on: the heap and the registry the call leaves
\* behind, with the address returned or the exception thrown
Type_fromDoctrine_from_heap(r, i, registry, h) ==
    IF i > Len(r.tags) THEN Registers(Returns(h, AnyAt), registry)
    ELSE LET tag == r.tags[i] IN
         CASE tag.title = "typedef" ->
                  LET out == RecordType_fromDoctrineType_heap(tag.type, r, registry, h, {}) IN
                  IF out.thrown # "" THEN Registers(out, registry)
                  ELSE Registers(Returns(out.heap, AnyAt),
                                 Put(registry, tag.name, out.at))
           [] tag.title = "type" ->
                  Registers(Type_fromDoctrineType_heap(tag.type, r, registry, h, {}),
                            registry)
           [] tag.title \in {"return", "returns", "param"} ->
                  Registers(FunctionType_fromDoctrine_heap(r, registry, h), registry)
           [] OTHER -> Type_fromDoctrine_from_heap(r, i + 1, registry, h)

Type_fromDoctrine_heap(r, registry, h) == Type_fromDoctrine_from_heap(r, 1, registry, h)

----------------------------------------------------------------------------
(* Bounds and inputs *)

MaxTags == 3        \* tags in one documentation comment
MaxDepth == 1       \* aliases nested inside a type kept in the registry
MaxUnion == 2       \* members of a union built with new UnionType(...)

Tag(title, name, expr) == [title |-> title, name |-> name, type |-> expr]

number == NameExpression("number")
object == NameExpression("object")

\* tags of the comments that declare and use typedefs
RegistryTags ==
    { Tag("typedef", "Point", object),
      Tag("typedef", "Pair", number),
      Tag("typedef", "Pair", RecordExpression),
      Tag("property", "a", number),
      Tag("property", "b", NameExpression("Point")),
      Tag("property", "b", object),
      Tag("type", "", NameExpression("Point")),
      Tag("type", "", NameExpression("Pair")) }

\* tags of the comments that document a function
FunctionTags ==
    { Tag("param", "a", number),
      Tag("param", "b", NameExpression("string")),
      Tag("param", "a", NameExpression("Point")),
      Tag("return", "", NameExpression("boolean")),
      Tag("returns", "", UnionExpression(<<number, object>>)) }

RECURSIVE SeqsUpTo(_, _)
SeqsUpTo(S, n) ==
    IF n = 0 THEN {<<>>}
    ELSE LET shorter == SeqsUpTo(S, n - 1) IN
         shorter \cup {Append(q, e) : q \in shorter, e \in S}

Docs == {Comment(tags) : tags \in SeqsUpTo(RegistryTags, MaxTags)
                                     \cup SeqsUpTo(FunctionTags, MaxTags)}

\* names asked of getParameter and getProperty
Names == {"a", "b", "c", "constructor"}

Max(S) == IF S = {} THEN 0 ELSE CHOOSE y \in S : \A z \in S : z <= y

\* the longest chain of aliases inside a type
RECURSIVE Depth(_)
Depth(t) ==
    CASE t.kind = "AliasType" -> 1 + Depth(t.type)
      [] t.kind = "UnionType" -> Max({Depth(t.union[i]) : i \in 1..Len(t.union)})
      [] t.kind = "RecordType" -> Max({Depth(t.record[i].type) : i \in 1..Len(t.record)})
      [] t.kind = "FunctionType" ->
             Max({Depth(t.returnType)} \cup
                 {Depth(t.argumentTypes[i]) : i \in 1..Len(t.argumentTypes)})
      [] OTHER -> 0

None == [kind |-> "none"]

\* The registry of a file that declares
\*   @typedef {object} Point  @property {number} x  @property {number} y
\*   @typedef {number} Pair
\* as the translator leaves it.
PointComment ==
    Comment(<<Tag("typedef", "Point", object), Tag("property", "x", number),
              Tag("property", "y", number)>>)
PairComment == Comment(<<Tag("typedef", "Pair", number)>>)
ScannedTypedefs ==
    Type_fromDoctrine(PairComment, Type_fromDoctrine(PointComment, <<>>).typedefs).typedefs

\* the aliases the translator makes of a registry's names
Aliases(registry) ==
    {PrimitiveType_fromDoctrineType(NameExpression(registry[i].name), EmptyRec,
                                    registry, {}) : i \in 1..Len(registry)}

\* the types a rule compares, built with the exported constructors
Atoms == {Type_invalid, Type_any, Type_number, Type_string}
Functions ==
    { FunctionType(Type_any, <<>>, <<>>),
      FunctionType(Type_number, <<Type_string>>, <<[name |-> "a", type |-> Type_string]>>) }
Members(registry) ==
    Atoms \cup Aliases(registry)
          \cup {RecordType(<<[name |-> "x", type |-> Type_number]>>),
                FunctionType(Type_any, <<>>, <<>>)}
Unions(registry) == {UnionType(u) : u \in SeqsUpTo(Members(registry), MaxUnion)}
PropertyTypes(registry) ==
    Members(registry) \cup {UnionType(<<>>), UnionType(<<Type_number, Type_string>>)}
Field(name, t) == [name |-> name, type |-> t]
Records(registry) ==
    {RecordType(<<>>)}
    \cup {RecordType(<<Field("x", m)>>) : m \in PropertyTypes(registry)}
    \cup {RecordType(<<Field("x", p), Field("y", q)>>) :
             p \in {Type_number, Type_string, Type_any},
             q \in {Type_number, Type_string, Type_any}}
    \cup {RecordType(<<Field("x", Type_number), Field("y", Type_number), Field("z", m)>>) :
             m \in PropertyTypes(registry)}
Types(registry) ==
    Atoms \cup Aliases(registry) \cup Functions \cup Unions(registry) \cup Records(registry)

----------------------------------------------------------------------------
(* Inputs of the translations made on the heap *)

MaxObjects == 8     \* objects on the heap, the three singletons included
MaxHeapTags == 2    \* tags in one comment translated on the heap

\* tags of comments whose typedefs name themselves and each other, and of
\* the comments that use them
HeapTags ==
    { Tag("typedef", "Point", object),
      Tag("typedef", "Pair", object),
      Tag("property", "a", NameExpression("Point")),
      Tag("property", "b", NameExpression("Pair")),
      Tag("property", "c", object),
      Tag("type", "", NameExpression("Point")),
      Tag("type", "", UnionExpression(<<NameExpression("Pair"), UndefinedLiteral>>)),
      Tag("type", "", FunctionExpression(<<NameExpression("Point")>>,
                                         <<NameExpression("Pair")>>)),
      Tag("param", "a", NameExpression("Pair")) }

HeapDocs == {Comment(tags) : tags \in SeqsUpTo(HeapTags, MaxHeapTags)}

----------------------------------------------------------------------------
(* The state machine: a rule calls the translator or compares two types *)

Init ==
    /\ typedefs = <<>>
    /\ pc = "idle"
    /\ rec = Comment(<<>>)
    /\ type = None
    /\ before = <<>>
    /\ thisType = None
    /\ otherType = None
    /\ ofType = "none"
    /\ supertypeOf = "none"
    /\ heap = <<>>
    /\ created = <<>>

\* type = Type.fromDoctrine(rec, typedefs)
Translate ==
    /\ pc = "idle"
    /\ \E r \in Docs :
          LET out == Type_fromDoctrine(r, typedefs) IN
          /\ \A i \in 1..Len(out.typedefs) : Depth(out.typedefs[i].type) <= MaxDepth
          /\ rec' = r
          /\ type' = out.type
          /\ typedefs' = out.typedefs
    /\ before' = typedefs
    /\ pc' = "translated"
    /\ UNCHANGED <<thisType, otherType, ofType, supertypeOf, heap, created>>

\* ofType = thisType.isOfType(otherType),
\* supertypeOf = thisType.isSupertypeOf(otherType)
Compare ==
    /\ pc = "idle"
    /\ \E a \in Types(typedefs), b \in Types(typedefs) :
          /\ thisType' = a
          /\ otherType' = b
          /\ ofType' = CallIsOfType(a, b)
          /\ supertypeOf' = CallIsSupertypeOf(a, b)
    /\ pc' = "compared"
    /\ UNCHANGED <<typedefs, rec, type, before, heap, created>>

\* the caller is done with the result
Return ==
    /\ pc # "idle"
    /\ pc' = "idle"
    /\ rec' = Comment(<<>>)
    /\ type' = None
    /\ before' = <<>>
    /\ thisType' = None
    /\ otherType' = None
    /\ ofType' = "none"
    /\ supertypeOf' = "none"
    /\ UNCHANGED <<typedefs, heap, created>>

\* the translator and the registry it fills
Next == Translate \/ Return

Spec == Init /\ [][Next]_vars

\* the algebra on the types of a scanned file
InitAlgebra ==
    /\ typedefs = ScannedTypedefs
    /\ pc = "idle"
    /\ rec = Comment(<<>>)
    /\ type = None
    /\ before = <<>>
    /\ thisType = None
    /\ otherType = None
    /\ ofType = "none"
    /\ supertypeOf = "none"
    /\ heap = <<>>
    /\ created = <<>>

NextAlgebra == Compare \/ Return

SpecAlgebra == InitAlgebra /\ [][NextAlgebra]_vars

\* the translator on the heap: typedefs maps a name to an address, type is
\* the address returned (0 when the call throws)
InitHeap ==
    /\ typedefs = <<>>
    /\ pc = "idle"
    /\ rec = Comment(<<>>)
    /\ type = 0
    /\ before = <<>>
    /\ thisType = None
    /\ otherType = None
    /\ ofType = "none"
    /\ supertypeOf = "none"
    /\ heap = LoadedHeap
    /\ created = LoadedHeap

\* type = Type.fromDoctrine(r, typedefs) for a comment r
TranslateHeap ==
    /\ pc = "idle"
    /\ \E r \in HeapDocs :
          \E out \in {Type_fromDoctrine_heap(r, typedefs, heap)} :
          /\ Len(out.heap) <= MaxObjects
          /\ type' = out.at
          /\ typedefs' = out.typedefs
          /\ heap' = out.heap
    /\ before' = typedefs
    /\ created' = heap
    /\ pc' = "translated"
    /\ UNCHANGED <<rec, thisType, otherType, ofType, supertypeOf>>

\* the caller is done with the result
ReturnHeap ==
    /\ pc # "idle"
    /\ pc' = "idle"
    /\ type' = 0
    /\ before' = <<>>
    /\ created' = heap
    /\ UNCHANGED <<typedefs, heap, rec, thisType, otherType, ofType, supertypeOf>>

NextHeap == TranslateHeap \/ ReturnHeap

SpecHeap == InitHeap /\ [][NextHeap]_vars

----------------------------------------------------------------------------
(* Properties of the algebra, under SpecAlgebra *)

Booleans == {"true", "false"}

\* p || q and p && q of two calls, the second made only when the first
\* does not decide; an exception of the first is the outcome
OrElse(p, q) == IF p = "false" THEN q ELSE p
AndAlso(p, q) == IF p = "true" THEN q ELSE p

\* C1 as the specification states it: the Unknown type is a supertype of every
\* type, and no type other than Unknown isOfType Unknown.
C1_UnknownRejectsAsArgument ==
    pc = "compared" =>
        /\ IsTypeAny(thisType) => supertypeOf = "true"
        /\ IsTypeAny(otherType) /\ ~IsTypeAny(thisType) => ofType = "false"

\* C1 as the code has it: U.isSupertypeOf(t) is true for every t; it is
\* U.isOfType(t) that is false unless t is itself Unknown; t.isOfType(U) is
\* true for every t.
C1_UnknownRejectsAsReceiver ==
    pc = "compared" =>
        /\ IsTypeAny(thisType) =>
              /\ supertypeOf = "true"
              /\ ofType = Bool(IsTypeAny(otherType))
        /\ IsTypeAny(otherType) => ofType = "true"

C1_Witness ==
    /\ pc = "compared"
    /\ IsTypeAny(thisType)
    /\ otherType.kind = "RecordType"
    /\ ofType = "false"
    /\ supertypeOf = "true"

\* C2: isOfType and isSupertypeOf never raise an error, for every pair of
\* types: a call that returns returns a boolean.  (That every call returns is
\* claim C3.)
C2_NeverThrows ==
    pc = "compared" => ofType # "TypeError" /\ supertypeOf # "TypeError"

\* C3: the evaluation of isOfType and of isSupertypeOf terminates for every
\* pair of types: the delegation between the operands does not go on forever.
C3_Terminates ==
    pc = "compared" => ofType # "RangeError" /\ supertypeOf # "RangeError"

\* C4: for U = union(A, B), U.isSupertypeOf(x) is A.isSupertypeOf(x) ||
\* B.isSupertypeOf(x) and U.isOfType(x) is A.isOfType(x) && B.isOfType(x); the
\* empty union isOfType everything and is a supertype of nothing.
C4_Union ==
    pc = "compared" /\ thisType.kind = "UnionType" =>
        /\ Len(thisType.union) = 2 =>
              /\ supertypeOf = OrElse(CallIsSupertypeOf(thisType.union[1], otherType),
                                      CallIsSupertypeOf(thisType.union[2], otherType))
              /\ ofType = AndAlso(CallIsOfType(thisType.union[1], otherType),
                                  CallIsOfType(thisType.union[2], otherType))
        /\ Len(thisType.union) = 0 => ofType = "true" /\ supertypeOf = "false"

\* the two rules are not dual: a union of two members that isOfType x although
\* x is not a supertype of it
C4_NotDual ==
    /\ pc = "compared"
    /\ thisType.kind = "UnionType"
    /\ Len(thisType.union) = 2
    /\ ofType = "true"
    /\ CallIsSupertypeOf(otherType, thisType) = "false"

\* C5: r.isSupertypeOf(r) is true for every Record type r, whatever the types of
\* its properties.
C5_RecordReflexive ==
    pc = "compared" /\ thisType.kind = "RecordType" /\ otherType = thisType =>
        supertypeOf = "true"

\* the records of claim C7
DeclaredPoint == RecordType(<<Field("x", Type_number), Field("y", Type_number)>>)
IsDeclaredPoint(t) ==
    t = DeclaredPoint \/ (t.kind = "AliasType" /\ t.type = DeclaredPoint)
IsWiderPoint(t) ==
    /\ t.kind = "RecordType"
    /\ Len(t.record) = 3
    /\ SubSeq(t.record, 1, 2) = DeclaredPoint.record
StringPoint == RecordType(<<Field("x", Type_string), Field("y", Type_number)>>)

\* C7 as the specification states it: D = {x:number, y:number}, directly or
\* through an alias, accepts {x:number, y:number} and a wider record with one
\* extra field, and rejects {x:string, y:number}, with isOfType and with
\* isSupertypeOf.
C7_WiderAccepted ==
    pc = "compared" /\ IsDeclaredPoint(thisType) =>
        /\ otherType = DeclaredPoint => ofType = "true" /\ supertypeOf = "true"
        /\ IsWiderPoint(otherType) => ofType = "true" /\ supertypeOf = "true"
        /\ otherType = StringPoint => ofType = "false" /\ supertypeOf = "false"

\* C7 as the code has it: D.isSupertypeOf ignores the extra field; D.isOfType
\* compares D's missing property, Unknown, with the extra field and accepts
\* the wider record only when the extra field is Unknown.
C7_WiderBySupertype ==
    pc = "compared" /\ IsDeclaredPoint(thisType) =>
        /\ otherType = DeclaredPoint => ofType = "true" /\ supertypeOf = "true"
        /\ IsWiderPoint(otherType) =>
              /\ supertypeOf = "true"
              /\ ofType = Bool(IsTypeAny(otherType.record[3].type))
        /\ otherType = StringPoint => ofType = "false" /\ supertypeOf = "false"

C7_Witness ==
    /\ pc = "compared"
    /\ thisType.kind = "AliasType"
    /\ IsDeclaredPoint(thisType)
    /\ IsWiderPoint(otherType)
    /\ otherType.record[3].type = Type_number
    /\ ofType = "false"
    /\ supertypeOf = "true"

----------------------------------------------------------------------------
(* Properties of the translator, under Spec *)

\* index of the first tag of r whose title is in titles, 0 when there is none
FirstTag(r, titles) ==
    IF \E i \in 1..Len(r.tags) : r.tags[i].title \in titles
    THEN CHOOSE i \in 1..Len(r.tags) :
             /\ r.tags[i].title \in titles
             /\ \A j \in 1..(i - 1) : r.tags[j].title \notin titles
    ELSE 0

\* index of the last tag of r with one of the titles and, when name is not
\* "", that name; 0 when there is none
LastTag(r, titles, name) ==
    LET hits == {i \in 1..Len(r.tags) :
                    /\ r.tags[i].title \in titles
                    /\ name # "" => r.tags[i].name = name}
    IN  Max(hits)

Decides(r, title) ==
    LET i == FirstTag(r, {"typedef", "type", "return", "returns", "param"})
    IN  i # 0 /\ r.tags[i].title = title

\* rec is the comment @type {N} of a name N the registry holds
NamesRegistered ==
    /\ pc = "translated"
    /\ Len(rec.tags) = 1
    /\ rec.tags[1].title = "type"
    /\ rec.tags[1].type.type = "NameExpression"
    /\ hasOwnProperty(before, rec.tags[1].type.name)

\* C6: translating a name expression N that the registry holds yields an alias
\* whose toString() is N, and isOfType and isSupertypeOf, with the alias as
\* receiver or as argument, give what they give with the registered type in
\* its place.
C6_AliasActsAsTarget ==
    NamesRegistered =>
        LET N == rec.tags[1].type.name
            target == Own(before, N)
        IN  /\ type.kind = "AliasType"
            /\ toString(type) = N
            /\ \A x \in Types(typedefs) :
                  /\ CallIsOfType(type, x) = CallIsOfType(target, x)
                  /\ CallIsSupertypeOf(type, x) = CallIsSupertypeOf(target, x)
                  /\ CallIsOfType(x, type) = CallIsOfType(x, target)
                  /\ CallIsSupertypeOf(x, type) = CallIsSupertypeOf(x, target)

C6_Witness ==
    /\ NamesRegistered
    /\ type.kind = "AliasType"
    /\ type.type.kind = "RecordType"
    /\ Len(type.type.record) = 2
    /\ toString(type) = "Point"
    /\ toString(type.type) # "Point"
    /\ CallIsSupertypeOf(type, type.type) = "true"

\* the translations of the declared types of the param tags of rec, in order
ParamTags(r) == SelectSeq(r.tags, LAMBDA tag : tag.title = "param")
Translated(tag) == Type_fromDoctrineType(tag.type, rec, before, {})

\* C8: a tag list with no typedef or type tag and with a param, return or
\* returns tag yields a Function type whose argument count is the number of
\* param tags, whose arguments are their translated types in order (invalid
\* outside the range), whose parameters are those types by name (Unknown for
\* a name without param tag), whose return is the translated return(s) tag
\* (Unknown without one), rendered function(args joined by ','):return.
C8_FunctionFromTags ==
    ( /\ pc = "translated"
      /\ FirstTag(rec, {"typedef", "type"}) = 0
      /\ FirstTag(rec, {"param", "return", "returns"}) # 0 )
    =>
    LET params == ParamTags(rec)
        ret == LastTag(rec, {"return", "returns"}, "")
        returned == IF ret = 0 THEN Type_any ELSE Translated(rec.tags[ret])
    IN  /\ type.kind = "FunctionType"
        /\ getArgumentCount(type) = <<Len(params)>>
        /\ \A index \in (0 - 1)..MaxTags :
              getArgument(type, index) =
                  IF index >= 0 /\ index < Len(params)
                  THEN Translated(params[index + 1]) ELSE Type_invalid
        /\ \A n \in Names :
              getParameter(type, n) =
                  IF LastTag(rec, {"param"}, n) = 0 THEN Type_any
                  ELSE Translated(rec.tags[LastTag(rec, {"param"}, n)])
        /\ getReturn(type) = returned
        /\ toString(type) =
              "function(" \o join([i \in 1..Len(params) |->
                                      toString(Translated(params[i]))], ",")
                          \o "):" \o toString(returned)

\* C9: whenever a typedef tag is in the tag list, at any position,
\* Type.fromDoctrine registers the Record built from the property tags under
\* the typedef's name and returns the Unknown type.  (Read with the sentence
\* it comes from: the Record when the declared shape is the name expression
\* object, invalid/bottom for another shape.)
C9_TypedefRegisters ==
    pc = "translated" /\ FirstTag(rec, {"typedef"}) # 0 =>
        LET tag == rec.tags[FirstTag(rec, {"typedef"})]
            built == RecordType_record(rec, 1, <<>>, before, {})
        IN  /\ type = Type_any
            /\ hasOwnProperty(typedefs, tag.name)
            /\ tag.type = object => Own(typedefs, tag.name) = built
            /\ tag.type # object => Own(typedefs, tag.name) = Type_invalid

\* C10 as the specification states it: every entry of the registry is a Record
\* type.
C10_OnlyRecords ==
    \A i \in 1..Len(typedefs) : typedefs[i].type.kind = "RecordType"

\* C10 as the code has it: every entry is a Record type or the invalid/bottom
\* type; a translation changes the registry only when the tag that decides it
\* is a typedef tag, and then only the entry of that name, to a Record when
\* the declared shape is the name expression object and to invalid/bottom for
\* every other shape; no entry is removed.
C10_RecordOrInvalid ==
    /\ \A i \in 1..Len(typedefs) : typedefs[i].type.kind \in {"RecordType", "Type"}
    /\ pc = "translated" =>
          /\ \A i \in 1..Len(before) : hasOwnProperty(typedefs, before[i].name)
          /\ typedefs # before =>
                /\ Decides(rec, "typedef")
                /\ LET tag == rec.tags[FirstTag(rec, {"typedef"})] IN
                   /\ hasOwnProperty(typedefs, tag.name)
                   /\ Own(typedefs, tag.name).kind = "RecordType" <=> tag.type = object
                   /\ \A i \in 1..Len(typedefs) :
                         typedefs[i].name # tag.name =>
                             /\ hasOwnProperty(before, typedefs[i].name)
                             /\ Own(before, typedefs[i].name) = typedefs[i].type

C10_Witness ==
    /\ pc = "translated"
    /\ typedefs # before
    /\ hasOwnProperty(before, "Point")
    /\ Own(before, "Point").kind = "RecordType"
    /\ hasOwnProperty(typedefs, "Pair")
    /\ Own(typedefs, "Pair") = Type_invalid
    /\ rec.tags[FirstTag(rec, {"typedef"})].type = RecordExpression

----------------------------------------------------------------------------
(* Properties of the heap the translator builds, under SpecHeap *)

\* the addresses an object holds
References(obj) ==
    CASE obj.kind = "AliasType" -> {obj.type}
      [] obj.kind = "UnionType" -> {obj.union[i] : i \in 1..Len(obj.union)}
      [] obj.kind = "RecordType" -> {obj.record[i].type : i \in 1..Len(obj.record)}
      [] obj.kind = "FunctionType" ->
             {obj.returnType}
             \cup {obj.argumentTypes[i] : i \in 1..Len(obj.argumentTypes)}
             \cup {obj.parameterTypes[i].type : i \in 1..Len(obj.parameterTypes)}
      [] OTHER -> {}

\* the addresses reached from a set of addresses by following references
RECURSIVE Reachable(_, _)
Reachable(h, from) ==
    LET next == from \cup UNION {References(h[a]) : a \in from} IN
    IF next = from THEN from ELSE Reachable(h, next)

\* t.toString() of the object at an address; path is the set of addresses
\* whose toString has not returned, and a call on one of them never returns
RECURSIVE toString_heap(_, _, _)
toString_heap(h, a, path) ==
    LET t == h[a]
        inner == path \cup {a}
    IN  IF a \in path THEN "RangeError"
        ELSE CASE t.kind = "Type" -> "<invalid>"
               [] t.kind = "AnyType" -> "*"
               [] t.kind = "PrimitiveType" -> t.primitive
               [] t.kind = "AliasType" -> t.name
               [] t.kind = "UnionType" ->
                      LET members == [i \in 1..Len(t.union) |->
                                         toString_heap(h, t.union[i], inner)]
                      IN  IF \E i \in 1..Len(members) : members[i] = "RangeError"
                          THEN "RangeError" ELSE join(members, "|")
               [] t.kind = "RecordType" ->
                      LET values == [i \in 1..Len(t.record) |->
                                        toString_heap(h, t.record[i].type, inner)]
                      IN  IF \E i \in 1..Len(values) : values[i] = "RangeError"
                          THEN "RangeError"
                          ELSE "{" \o join([i \in 1..Len(values) |->
                                               t.record[i].name \o ":" \o values[i]], ", ")
                                   \o "}"
               [] t.kind = "FunctionType" ->
                      LET arguments == [i \in 1..Len(t.argumentTypes) |->
                                           toString_heap(h, t.argumentTypes[i], inner)]
                          returned == toString_heap(h, t.returnType, inner)
                      IN  IF returned = "RangeError"
                             \/ \E i \in 1..Len(arguments) : arguments[i] = "RangeError"
                          THEN "RangeError"
                          ELSE "function(" \o join(arguments, ",") \o "):" \o returned

\* the addresses a caller holds: the registry's entries and the type returned
Held == {typedefs[i].type : i \in 1..Len(typedefs)} \cup (IF type = 0 THEN {} ELSE {type})

\* C11: after any sequence of translations against one registry, typedefs
\* that name themselves, name each other or register a name again included,
\* every type in the registry and every type returned is a finite acyclic
\* structure: every reference is to an object that exists, no object is
\* reached from the objects it refers to, and so no Alias is reached from its
\* own target; an Alias made by a call refers to what the registry held
\* under its name when the call started; toString() returns on every type
\* in the registry and on the type returned; and a call changes no object
\* that existed before it, so registering a name again leaves the Aliases
\* made earlier as they were.
C11_Acyclic ==
    /\ \A a \in 1..Len(heap) :
          /\ References(heap[a]) \subseteq 1..Len(heap)
          /\ a \notin Reachable(heap, References(heap[a]))
          /\ heap[a].kind = "AliasType" => a \notin Reachable(heap, {heap[a].type})
    /\ \A a \in Held : a \in 1..Len(heap) /\ toString_heap(heap, a, {}) # "RangeError"
    /\ Len(created) <= Len(heap)
    /\ \A a \in 1..Len(created) : heap[a] = created[a]
    /\ pc = "translated" =>
          \A a \in (Len(created) + 1)..Len(heap) :
              heap[a].kind = "AliasType" =>
                  /\ hasOwnProperty(before, heap[a].name)
                  /\ heap[a].type = Own(before, heap[a].name)

\* a typedef that names itself is registered a second time: the new Record's
\* property is an Alias of the Record registered before, which is still on
\* the heap as it was, and an Alias made earlier still refers to it
C11_Witness ==
    /\ pc = "translated"
    /\ hasOwnProperty(before, "Point")
    /\ hasOwnProperty(typedefs, "Point")
    /\ Own(typedefs, "Point") # Own(before, "Point")
    /\ LET new == heap[Own(typedefs, "Point")] IN
       /\ new.kind = "RecordType"
       /\ \E i \in 1..Len(new.record) :
             /\ heap[new.record[i].type].kind = "AliasType"
             /\ heap[new.record[i].type].name = "Point"
             /\ heap[new.record[i].type].type = Own(before, "Point")
    /\ \E a \in 1..Len(created) :
          /\ heap[a].kind = "AliasType"
          /\ heap[a].name = "Point"
          /\ heap[a].type = Own(before, "Point")

============================================================================
